---- MODULE Spec2Model ----
(***************************************************************************)
(* Request/cache orchestration of the GW2API client (src/unnamed/part_001):*)
(* _apiRequest (collection fetch) and _apiDetailsRequest (detail fetch)    *)
(* over the cache store and the HTTP transport.                            *)
(*                                                                         *)
(* JavaScript values are tagged records: the tag t is the type the code    *)
(* tests with instanceof / truthiness.  A promise chain is modelled by its *)
(* callbacks: the synchronous part of a call up to the cache probe, the    *)
(* callback on the probe, and the callback on the transport's answer.      *)
(***************************************************************************)
EXTENDS Integers, Sequences, FiniteSets, TLC

\* ------------------------------------------------------------------ bounds
MaxId == 2
MaxLen == 3
MaxCalls == 2

\* ------------------------------------------------------- JavaScript values
Undefined == [t |-> "undefined"]
Num(n) == [t |-> "number", n |-> n]
Str(s) == [t |-> "string", s |-> s]
Bool(b) == [t |-> "boolean", b |-> b]
Arr(items) == [t |-> "array", items |-> items]
\* a plain object with its properties in insertion order
PlainObject(props) == [t |-> "object", props |-> props]
Prop(name, value) == [name |-> name, value |-> value]
ErrorValue(kind, status) == [t |-> "error", kind |-> kind, status |-> status]

\* if (v): undefined, 0 and "" are falsy; objects, arrays, errors are truthy
Truthy(v) ==
  CASE v.t = "undefined" -> FALSE
    [] v.t = "number" -> v.n # 0
    [] v.t = "string" -> v.s # ""
    [] v.t = "boolean" -> v.b
    [] OTHER -> TRUE

IsArray(v) == v.t = "array"
\* v instanceof Object
IsObject(v) == v.t \in {"object", "array", "error"}

\* `${v}` for the values the code interpolates
TemplateString(v) ==
  CASE v.t = "number" -> ToString(v.n)
    [] v.t = "string" -> v.s
    [] v.t = "boolean" -> (IF v.b THEN "true" ELSE "false")
    [] OTHER -> v.t

\* ------------------------------------------------------- sequence helpers
\* Array.prototype.sort with (a, b) => a - b on an array of numbers: ascending,
\* stable
RECURSIVE InsertNum(_, _)
InsertNum(x, s) ==
  IF s = <<>> THEN <<x>>
  ELSE IF x.n < Head(s).n THEN <<x>> \o s
  ELSE <<Head(s)>> \o InsertNum(x, Tail(s))

RECURSIVE SortIds(_)
SortIds(s) ==
  IF s = <<>> THEN <<>>
  ELSE InsertNum(s[Len(s)], SortIds(SubSeq(s, 1, Len(s) - 1)))

\* Array.prototype.sort with (a, b) => a.id - b.id on an array of objects
RECURSIVE InsertObject(_, _)
InsertObject(x, s) ==
  IF s = <<>> THEN <<x>>
  ELSE IF x.id < Head(s).id THEN <<x>> \o s
  ELSE <<Head(s)>> \o InsertObject(x, Tail(s))

RECURSIVE SortObjects(_)
SortObjects(s) ==
  IF s = <<>> THEN <<>>
  ELSE InsertObject(s[Len(s)], SortObjects(SubSeq(s, 1, Len(s) - 1)))

Reverse(s) == [i \in 1..Len(s) |-> s[Len(s) + 1 - i]]

Range(s) == {s[i] : i \in 1..Len(s)}

\* ids.join(',')
RECURSIVE Join(_)
Join(s) ==
  IF s = <<>> THEN ""
  ELSE IF Len(s) = 1 THEN TemplateString(s[1])
  ELSE TemplateString(s[1]) \o "," \o Join(Tail(s))

\* ---------------------------------------------------------- plain objects
\* obj[name]: undefined when the property is absent
GetProp(obj, name) ==
  IF \E i \in 1..Len(obj.props) : obj.props[i].name = name
  THEN LET i == CHOOSE j \in 1..Len(obj.props) : obj.props[j].name = name
       IN obj.props[i].value
  ELSE Undefined

\* obj[name] = value: an existing property keeps its position, a new one is
\* appended
SetProp(obj, name, value) ==
  IF \E i \in 1..Len(obj.props) : obj.props[i].name = name
  THEN PlainObject([i \in 1..Len(obj.props) |->
         IF obj.props[i].name = name THEN Prop(name, value) ELSE obj.props[i]])
  ELSE PlainObject(Append(obj.props, Prop(name, value)))

JsonValue(v) ==
  CASE v.t = "number" -> ToString(v.n)
    [] v.t = "string" -> "\"" \o v.s \o "\""
    [] OTHER -> "null"

RECURSIVE JsonProps(_)
JsonProps(ps) ==
  IF ps = <<>> THEN ""
  ELSE "\"" \o Head(ps).name \o "\":" \o JsonValue(Head(ps).value)
       \o (IF Len(ps) > 1 THEN "," ELSE "") \o JsonProps(Tail(ps))

\* JSON.stringify of a plain object: the properties in insertion order, the
\* undefined ones left out
JsonStringify(obj) ==
  "{" \o JsonProps(SelectSeq(obj.props, LAMBDA p : p.value.t # "undefined")) \o "}"

\* --------------------------------------------------------------- constructor
DefaultLanguage == "en"
DefaultCacheTimeout == 1800
DefaultMaxCacheObjects == 1000

\* x || d
OrElse(x, d) == IF Truthy(x) THEN x ELSE d

Constructor(cfg) ==
  [lang |-> cfg.lang,
   defaultLang |-> OrElse(cfg.defaultLang, Str(DefaultLanguage)),
   cacheTimeout |-> OrElse(cfg.cacheTimeout, Num(DefaultCacheTimeout)),
   maxCacheObjects |-> OrElse(cfg.maxCacheObjects, Num(DefaultMaxCacheObjects))]

\* ------------------------------------------------------- cache key strategy
\* if (!(params instanceof Object)) { apiKey = params; params = {}; }
\* the API key taken from its own position only, never from the params position
ApiKeyNotShifted(params, apiKey) == apiKey

ShiftedApiKey(params, apiKey) == IF IsObject(params) THEN apiKey ELSE params
ShiftedParams(params) == IF IsObject(params) THEN params ELSE PlainObject(<<>>)

\* if (!params.lang) params.lang = this.config.defaultLang;
WithLang(params, cfg) ==
  IF Truthy(GetProp(params, "lang")) THEN params
  ELSE SetProp(params, "lang", cfg.defaultLang)

\* the key without its API key part: one entry for all keys
CacheKeyWithoutApiKey(path, params, apiKey) ==
  path \o "#params:" \o JsonStringify(params)

\* also lines 190-195, the same text in _apiDetailsRequest
CacheKey(path, params, apiKey) ==
  IF Truthy(apiKey)
  THEN path \o "#apiKey:" \o TemplateString(apiKey) \o "#params:" \o JsonStringify(params)
  ELSE path \o "#params:" \o JsonStringify(params)

\* `${baseKey}#${id}`
IdKey(baseKey, id) == baseKey \o "#" \o TemplateString(id)

\* -------------------------------------------------------------- cache store
EmptyStore == [k \in {} |-> Undefined]

CacheGet(store, key) == IF key \in DOMAIN store THEN store[key] ELSE Undefined

CacheSet(store, key, value) ==
  [k \in DOMAIN store \cup {key} |-> IF k = key THEN value ELSE store[k]]

FindInCacheSimple(store, baseKey) == CacheGet(store, baseKey)

FindInCache(store, baseKey, ids) ==
  IF ~Truthy(ids) THEN FindInCacheSimple(store, baseKey)
  ELSE IF ~IsArray(ids) THEN CacheGet(store, IdKey(baseKey, ids))
  ELSE Arr([i \in 1..Len(ids.items) |-> CacheGet(store, IdKey(baseKey, ids.items[i]))])

SetCacheObject(store, key, object) == CacheSet(store, key, object)

RECURSIVE SetEach(_, _, _)
SetEach(store, baseKey, objects) ==
  IF objects = <<>> THEN store
  ELSE SetEach(SetCacheObject(store, IdKey(baseKey, Num(Head(objects).id)), Head(objects)),
               baseKey, Tail(objects))

\* the fetched objects stored by their position in the answer, under the keys
\* 0, 1, ...
SetCacheObjectsByPosition(store, baseKey, objects) ==
  IF ~IsArray(objects)
  THEN SetCacheObject(store, IdKey(baseKey, Num(objects.id)), objects)
  ELSE LET keyOf(i) == IdKey(baseKey, Num(i - 1))
           n == Len(objects.items)
       IN [k \in DOMAIN store \cup {keyOf(i) : i \in 1..n} |->
             IF \E i \in 1..n : k = keyOf(i)
             THEN objects.items[CHOOSE i \in 1..n : k = keyOf(i)]
             ELSE store[k]]

SetCacheObjects(store, baseKey, objects) ==
  IF ~IsArray(objects)
  THEN SetCacheObject(store, IdKey(baseKey, Num(objects.id)), objects)
  ELSE SetEach(store, baseKey, SortObjects(objects.items))

\* ---------------------------------------------------------------- transport
\* a request for one id only: the first of the list
IdListToParamsFirstId(ids) ==
  IF IsArray(ids) THEN PlainObject(<<Prop("id", ids.items[1])>>)
  ELSE PlainObject(<<Prop("id", ids)>>)

\* a list of exactly one id sent as the single id parameter
IdListToParamsSingleId(ids) ==
  IF IsArray(ids) /\ Len(ids.items) = 1 THEN PlainObject(<<Prop("id", ids.items[1])>>)
  ELSE IF IsArray(ids) THEN PlainObject(<<Prop("ids", Str(Join(ids.items)))>>)
  ELSE PlainObject(<<Prop("id", ids)>>)

IdListToParams(ids) ==
  IF IsArray(ids) THEN PlainObject(<<Prop("ids", Str(Join(ids.items)))>>)
  ELSE PlainObject(<<Prop("id", ids)>>)

BuildURL(path) == "https://api.guildwars2.com/v2/" \o path

\* options of the request _request sends; sent is the id list the qs encodes
RequestOptions(path, parameters, apiKey, sent) ==
  [url |-> BuildURL(path),
   path |-> path,
   qs |-> IF Truthy(parameters) THEN parameters ELSE PlainObject(<<>>),
   authorization |-> IF Truthy(apiKey) THEN Str("Bearer " \o TemplateString(apiKey))
                     ELSE Undefined,
   sent |-> sent]

NoRequest == [url |-> "", path |-> "", qs |-> PlainObject(<<>>),
              authorization |-> Undefined, sent |-> <<>>]

\* ----------------------------------------------------------------- upstream
\* The remote API as the client sees it: what it returns is a function of the
\* url path, the Authorization header and the query string.
UpstreamLang(req) ==
  LET l == GetProp(req.qs, "lang") IN IF Truthy(l) THEN l.s ELSE DefaultLanguage

UpstreamOwner(req) ==
  IF Truthy(req.authorization) THEN req.authorization.s ELSE ""

DetailObject(req, id) ==
  [t |-> "object", id |-> id, path |-> req.path, owner |-> UpstreamOwner(req),
   lang |-> UpstreamLang(req)]

Listing(req) ==
  Arr(<<[t |-> "entry", path |-> req.path, owner |-> UpstreamOwner(req),
         lang |-> UpstreamLang(req), query |-> JsonStringify(req.qs)]>>)

StatusOK == 200
StatusPartialContent == 206
ErrorStatuses == {404}

RECURSIVE SetToSeq(_)
SetToSeq(S) ==
  IF S = {} THEN <<>>
  ELSE LET m == CHOOSE x \in S : \A y \in S : x <= y
       IN <<m>> \o SetToSeq(S \ {m})

\* decoded bodies the upstream may answer a request with
UpstreamData(req) ==
  IF Truthy(GetProp(req.qs, "ids"))
  THEN LET asked == {req.sent[i].n : i \in 1..Len(req.sent)}
           asc(S) == [i \in 1..Cardinality(S) |-> DetailObject(req, SetToSeq(S)[i])]
       IN {Arr(asc(S)) : S \in SUBSET asked} \cup {Arr(Reverse(asc(S))) : S \in SUBSET asked}
  ELSE IF GetProp(req.qs, "id").t = "number"
  THEN {DetailObject(req, GetProp(req.qs, "id").n)}
  ELSE IF GetProp(req.qs, "id").t # "undefined"
  THEN {}                       \* no resource has an id that is not an id
  ELSE {Listing(req), Num(0)}

\* what the transport hands back: a response (status, body) or a transport error;
\* a body is the JSON text of a value or not JSON at all
Responses(req) ==
  {[error |-> FALSE, statusCode |-> st, valid |-> TRUE, data |-> d] :
      st \in {StatusOK, StatusPartialContent}, d \in UpstreamData(req)}
  \cup {[error |-> FALSE, statusCode |-> StatusOK, valid |-> FALSE, data |-> Undefined]}
  \cup {[error |-> FALSE, statusCode |-> st, valid |-> TRUE, data |-> Undefined] :
          st \in ErrorStatuses}
  \cup {[error |-> TRUE, statusCode |-> 0, valid |-> FALSE, data |-> Undefined]}

\* no response yet
NoResponse == [error |-> FALSE, statusCode |-> 0, valid |-> FALSE, data |-> Undefined]

\* JSON.parse in a try/catch
JsonParse(r) == IF r.valid THEN r.data ELSE ErrorValue("parse", r.statusCode)

\* _request's callback where only status 200 counts as a success
RequestOutcomeOnly200(r) ==
  IF r.error THEN [ok |-> FALSE, value |-> ErrorValue("transport", 0)]
  ELSE IF r.statusCode # StatusOK
  THEN [ok |-> FALSE, value |-> ErrorValue("status", r.statusCode)]
  ELSE IF JsonParse(r).t = "error"
  THEN [ok |-> FALSE, value |-> JsonParse(r)]
  ELSE [ok |-> TRUE, value |-> JsonParse(r)]

\* _request's callback: [ok, value]; ok = FALSE is a rejection with value
RequestOutcome(r) ==
  IF r.error THEN [ok |-> FALSE, value |-> ErrorValue("transport", 0)]
  ELSE IF r.statusCode # StatusOK /\ r.statusCode # StatusPartialContent
  THEN [ok |-> FALSE, value |-> ErrorValue("status", r.statusCode)]
  ELSE IF JsonParse(r).t = "error"
  THEN [ok |-> FALSE, value |-> JsonParse(r)]
  ELSE [ok |-> TRUE, value |-> JsonParse(r)]

\* ---------------------------------------------------------------------- state
VARIABLES
  config,    \* this.config after the constructor
  cache,     \* the memory store: key -> value
  calls,     \* per call slot: the call in flight or last completed
  nCalls     \* calls started

vars == <<config, cache, calls, nCalls>>

Slots == {1, 2}

Ids == 0..MaxId

RECURSIVE SeqsUpTo(_, _)
SeqsUpTo(S, n) ==
  IF n = 0 THEN {<<>>}
  ELSE LET shorter == SeqsUpTo(S, n - 1)
       IN shorter \cup {Append(q, x) : q \in {r \in shorter : Len(r) = n - 1}, x \in S}

\* the ids argument of a detail method: absent, one id, an array of ids, or a
\* value that is neither an id nor an array (true)
IdArgs ==
  {Undefined} \cup {Num(i) : i \in Ids}
  \cup {Arr(q) : q \in SeqsUpTo({Num(i) : i \in Ids}, MaxLen)}
  \cup {Bool(TRUE)}

ApiKeyArgs == {Undefined, Str("A"), Str("B")}

PageArgs == {Undefined, Num(1)}

\* the configurations a caller constructs the client with: the language named
\* as defaultLang, or named as lang
ConfigArgs ==
  {[lang |-> Undefined, defaultLang |-> Str("de"),
    cacheTimeout |-> Undefined, maxCacheObjects |-> Undefined],
   [lang |-> Str("fr"), defaultLang |-> Undefined,
    cacheTimeout |-> Undefined, maxCacheObjects |-> Undefined]}

\* var objectLookup = {}
EmptyLookup == [k \in {} |-> Undefined]

\* Object.keys(objectLookup).map(key => objectLookup[key]): integer keys come in
\* ascending numeric order
\* the lookup as an array indexed by id: an id without an object leaves a hole
LookupValuesByIndex(lookup) ==
  LET top == IF DOMAIN lookup = {} THEN 0
             ELSE 1 + CHOOSE m \in DOMAIN lookup : \A k \in DOMAIN lookup : k <= m
  IN Arr([i \in 1..top |-> IF i - 1 \in DOMAIN lookup THEN lookup[i - 1] ELSE Undefined])

LookupValues(lookup) ==
  LET keys == SetToSeq(DOMAIN lookup) IN Arr([i \in 1..Len(keys) |-> lookup[keys[i]]])

IdleCall ==
  [pc |-> "idle", kind |-> "none", path |-> "",
   arg2 |-> Undefined, arg3 |-> Undefined, arg4 |-> Undefined,
   callerIds |-> Undefined, apiKey |-> Undefined, params |-> PlainObject(<<>>),
   cacheKey |-> "", ids |-> Undefined, cachedResult |-> Undefined,
   objectLookup |-> EmptyLookup, request |-> NoRequest,
   nLookups |-> 0, nTransport |-> 0, nWrites |-> 0, outcome |-> "none", result |-> Undefined,
   response |-> NoResponse, answer |-> "none", hit |-> {}, baseHit |-> FALSE,
   repeat |-> FALSE, first |-> Undefined, lookupFailed |-> FALSE, method |-> ""]

Init ==
  /\ config \in {Constructor(cfg) : cfg \in ConfigArgs}
  /\ cache = EmptyStore
  /\ calls = [s \in Slots |-> IdleCall]
  /\ nCalls = 0

\* --------------------------------------------------------------------- calls
CanStart(s) == calls[s].pc \in {"idle", "done"} /\ nCalls < MaxCalls

\* a promise that is never settled: the call stays in flight
ResolveLost(c, value) == c

Resolve(c, value) == [c EXCEPT !.pc = "done", !.outcome = "resolved", !.result = value]

Reject(c, value) == [c EXCEPT !.pc = "done", !.outcome = "rejected", !.result = value]

\* a slot's call moves to c
Continue(s, c) == calls' = [calls EXCEPT ![s] = c]

\* history: the call starting in a slot repeats the slot's previous call, which
\* went to the transport once on a miss and succeeded
IsRepeat(c, kind, path, arg2, arg3, arg4) ==
  /\ c.pc = "done" /\ c.kind = kind /\ c.path = path
  /\ c.arg2 = arg2 /\ c.arg3 = arg3 /\ c.arg4 = arg4
  /\ c.outcome = "resolved" /\ c.nTransport = 1 /\ c.answer = "full"
  /\ ~c.baseHit /\ c.hit = {}

\* number of this.cache.get calls of _findInCache
LookupCount(ids) ==
  IF ~Truthy(ids) THEN 1 ELSE IF ~IsArray(ids) THEN 1 ELSE Len(ids.items)

\* _apiRequest up to the cache probe, called by the public method named method
ApiRequestBy(s, method, path, params, apiKey) ==
  /\ CanStart(s)
  /\ LET key == ShiftedApiKey(params, apiKey)
         ps == WithLang(ShiftedParams(params), config)
         cacheKey == CacheKey(path, ps, key)
     IN Continue(s, [IdleCall EXCEPT
          !.pc = "probed", !.kind = "collection", !.path = path, !.method = method,
          !.arg2 = params, !.arg3 = apiKey,
          !.apiKey = key, !.params = ps, !.cacheKey = cacheKey,
          !.cachedResult = FindInCache(cache, cacheKey, Undefined),
          !.nLookups = LookupCount(Undefined),
          !.baseHit = cacheKey \in DOMAIN cache,
          !.repeat = IsRepeat(calls[s], "collection", path, params, apiKey, Undefined),
          !.first = IF IsRepeat(calls[s], "collection", path, params, apiKey, Undefined)
                    THEN calls[s].result ELSE Undefined])
  /\ nCalls' = nCalls + 1
  /\ UNCHANGED <<config, cache>>

ApiRequest(s, path, params, apiKey) == ApiRequestBy(s, "", path, params, apiKey)

\* the callback on the probe of _apiRequest
CollectionProbed(s) ==
  /\ calls[s].pc = "probed" /\ calls[s].kind = "collection"
  /\ LET c == calls[s]
     IN IF Truthy(c.cachedResult)
        THEN Continue(s, Resolve(c, c.cachedResult))
        ELSE Continue(s, [c EXCEPT !.pc = "requested",
                            !.request = RequestOptions(c.path, c.params, c.apiKey, <<>>),
                            !.nTransport = c.nTransport + 1])
  /\ UNCHANGED <<config, cache, nCalls>>

AnswerKind(req, r) ==
  IF r.error THEN "transport"
  ELSE IF ~RequestOutcome(r).ok THEN (IF r.valid THEN "status" ELSE "malformed")
  ELSE IF IsArray(r.data) /\ Truthy(GetProp(req.qs, "ids"))
          /\ {req.sent[i].n : i \in 1..Len(req.sent)}
               # {r.data.items[i].id : i \in 1..Len(r.data.items)}
  THEN "partial"
  ELSE "full"

\* the callbacks on the transport's answer in _apiRequest
CollectionAnswered(s) ==
  /\ calls[s].pc = "requested" /\ calls[s].kind = "collection"
  /\ \E r \in Responses(calls[s].request) :
       LET c == [calls[s] EXCEPT !.response = r,
                                 !.answer = AnswerKind(calls[s].request, r)]
           requestResult == RequestOutcome(r)
       IN IF requestResult.ok
          THEN /\ cache' = SetCacheObject(cache, c.cacheKey, requestResult.value)
               /\ Continue(s, Resolve([c EXCEPT !.nWrites = c.nWrites + 1],
                                      requestResult.value))
          ELSE /\ cache' = cache
               /\ Continue(s, Resolve(c, requestResult.value))
  /\ UNCHANGED <<config, nCalls>>

\* _apiDetailsRequest up to the cache probe; the sort is in place, on the
\* caller's array
ApiDetailsRequestBy(s, method, path, ids, params, apiKey) ==
  /\ CanStart(s)
  /\ LET key == ShiftedApiKey(params, apiKey)
         ps == WithLang(ShiftedParams(params), config)
         cacheKey == CacheKey(path, ps, key)
         sorted == IF IsArray(ids) THEN Arr(SortIds(ids.items)) ELSE ids
     IN Continue(s, [IdleCall EXCEPT
          !.pc = "probed", !.kind = "details", !.path = path, !.method = method,
          !.arg2 = ids, !.arg3 = params, !.arg4 = apiKey,
          !.callerIds = sorted, !.ids = sorted,
          !.apiKey = key, !.params = ps, !.cacheKey = cacheKey,
          !.cachedResult = FindInCache(cache, cacheKey, sorted),
          !.nLookups = LookupCount(sorted),
          !.hit = IF IsArray(ids)
                  THEN {i \in Ids : Num(i) \in Range(ids.items)
                                    /\ IdKey(cacheKey, Num(i)) \in DOMAIN cache}
                  ELSE IF ids.t = "number" /\ IdKey(cacheKey, ids) \in DOMAIN cache
                  THEN {ids.n} ELSE {},
          !.baseHit = cacheKey \in DOMAIN cache])
  /\ nCalls' = nCalls + 1
  /\ UNCHANGED <<config, cache>>

ApiDetailsRequest(s, path, ids, params, apiKey) ==
  ApiDetailsRequestBy(s, "", path, ids, params, apiKey)

\* for (i < ids.length) if (cachedResult[i] === undefined) idsNotInCache.push(ids[i])
IdsNotInCache(ids, cachedResult) ==
  LET n == IF IsArray(ids) THEN Len(ids.items) ELSE 0
      missing == {i \in 1..n : cachedResult.items[i] = Undefined}
      idx == SetToSeq(missing)
  IN [j \in 1..Len(idx) |-> ids.items[idx[j]]]

\* ... else objectLookup[ids[i]] = cachedResult[i]
CachedLookup(ids, cachedResult) ==
  LET n == IF IsArray(ids) THEN Len(ids.items) ELSE 0
      found == {i \in 1..n : cachedResult.items[i] # Undefined}
  IN [k \in {ids.items[i].n : i \in found} |->
        cachedResult.items[CHOOSE i \in found :
           ids.items[i].n = k /\ \A j \in found : ids.items[j].n = k => j <= i]]

\* the callback on the probe of _apiDetailsRequest
DetailsProbed(s) ==
  /\ calls[s].pc = "probed" /\ calls[s].kind = "details"
  /\ LET c == calls[s]
         isArray == Truthy(c.cachedResult) /\ IsArray(c.cachedResult)
         typeError == ErrorValue("TypeError", 0)
     IN IF isArray /\ c.ids.t = "undefined"
        THEN Continue(s, Reject(c, typeError))          \* ids.length of undefined
        ELSE IF ~isArray /\ Truthy(c.cachedResult)
        THEN Continue(s, Resolve(c, c.cachedResult))
        ELSE LET ids == IF isArray THEN Arr(IdsNotInCache(c.ids, c.cachedResult))
                        ELSE c.ids
                 lookup == IF isArray THEN CachedLookup(c.ids, c.cachedResult)
                           ELSE EmptyLookup
                 c1 == [c EXCEPT !.ids = ids, !.objectLookup = lookup]
             IN IF ids.t = "undefined"
                THEN Continue(s, Reject(c1, typeError))  \* ids.length of undefined
                ELSE IF IsArray(ids) /\ Len(ids.items) <= 0
                THEN Continue(s, Resolve(c1, c.cachedResult))
                ELSE Continue(s, [c1 EXCEPT !.pc = "requested",
                       !.request = RequestOptions(c.path, IdListToParams(ids), c.apiKey,
                                      IF IsArray(ids) THEN ids.items ELSE <<ids>>),
                       !.nTransport = c.nTransport + 1])
  /\ UNCHANGED <<config, cache, nCalls>>

\* the fetched objects alone, the cached ones left behind
MergedLookupFetchedOnly(lookup, objects) ==
  [k \in {objects[i].id : i \in 1..Len(objects)} |->
     objects[CHOOSE i \in 1..Len(objects) :
       objects[i].id = k /\ \A j \in 1..Len(objects) : objects[j].id = k => j <= i]]

\* for (i < data.length) objectLookup[data[i].id] = data[i]
MergedLookup(lookup, objects) ==
  [k \in DOMAIN lookup \cup {objects[i].id : i \in 1..Len(objects)} |->
     IF \E i \in 1..Len(objects) : objects[i].id = k
     THEN objects[CHOOSE i \in 1..Len(objects) :
            objects[i].id = k /\ \A j \in 1..Len(objects) : objects[j].id = k => j <= i]
     ELSE lookup[k]]

\* number of cache.set calls of _setCacheObjects
SetCount(objects) == IF IsArray(objects) THEN Len(objects.items) ELSE 1

\* the callbacks on the transport's answer with a rejection handler that also
\* stores the failure under the call's cache key
DetailsAnsweredCachingFailure(s) ==
  /\ calls[s].pc = "requested" /\ calls[s].kind = "details"
  /\ \E r \in Responses(calls[s].request) :
       LET c == [calls[s] EXCEPT !.response = r,
                                 !.answer = AnswerKind(calls[s].request, r)]
           requestResult == RequestOutcome(r)
           data == requestResult.value
       IN IF requestResult.ok
          THEN /\ cache' = SetCacheObjects(cache, c.cacheKey, data)
               /\ LET c1 == [c EXCEPT !.nWrites = c.nWrites + SetCount(data)]
                  IN IF ~IsArray(data)
                     THEN Continue(s, Resolve(c1, data))
                     ELSE LET lookup == MergedLookup(c.objectLookup, SortObjects(data.items))
                          IN Continue(s, Resolve([c1 EXCEPT !.objectLookup = lookup],
                                                 LookupValues(lookup)))
          ELSE /\ cache' = SetCacheObject(cache, c.cacheKey, requestResult.value)
               /\ Continue(s, Resolve(c,
                    IF DOMAIN c.objectLookup # {} THEN LookupValues(c.objectLookup)
                    ELSE requestResult.value))
  /\ UNCHANGED <<config, nCalls>>

\* the callbacks on the transport's answer in _apiDetailsRequest
DetailsAnswered(s) ==
  /\ calls[s].pc = "requested" /\ calls[s].kind = "details"
  /\ \E r \in Responses(calls[s].request) :
       LET c == [calls[s] EXCEPT !.response = r,
                                 !.answer = AnswerKind(calls[s].request, r)]
           requestResult == RequestOutcome(r)
           data == requestResult.value
       IN IF requestResult.ok
          THEN /\ cache' = SetCacheObjects(cache, c.cacheKey, data)
               /\ LET c1 == [c EXCEPT !.nWrites = c.nWrites + SetCount(data)]
                  IN IF ~IsArray(data)
                     THEN Continue(s, Resolve(c1, data))
                     ELSE LET lookup == MergedLookup(c.objectLookup, SortObjects(data.items))
                          IN Continue(s, Resolve([c1 EXCEPT !.objectLookup = lookup],
                                                 LookupValues(lookup)))
          ELSE /\ cache' = cache
               /\ Continue(s, Resolve(c,
                    IF DOMAIN c.objectLookup # {} THEN LookupValues(c.objectLookup)
                    ELSE requestResult.value))
  /\ UNCHANGED <<config, nCalls>>

\* ------------------------------------------------------------ public methods
ListItems(s) ==
  \E page \in PageArgs :
    ApiRequest(s, "items",
      PlainObject(<<Prop("page", page), Prop("page_size", Undefined)>>), Undefined)

GetItems(s) ==
  \E ids \in IdArgs : ApiDetailsRequest(s, "items", ids, Undefined, Undefined)

ListCharacters(s) ==
  \E apiKey \in ApiKeyArgs, page \in PageArgs :
    ApiRequest(s, "characters",
      PlainObject(<<Prop("page", page), Prop("page_size", Undefined)>>), apiKey)

GetCharacters(s) ==
  \E apiKey \in ApiKeyArgs, ids \in IdArgs :
    ApiDetailsRequest(s, "characters", ids, apiKey, Undefined)

GetAccount(s) ==
  \E apiKey \in ApiKeyArgs : ApiRequest(s, "account", apiKey, Undefined)

\* the caller's own query object goes to _apiRequest as it is
QueryArgs ==
  {PlainObject(<<Prop("input", Num(1)), Prop("output", Num(2))>>),
   PlainObject(<<Prop("output", Num(2)), Prop("input", Num(1))>>)}

SearchRecipes(s) ==
  \E query \in QueryArgs : ApiRequest(s, "recipes/search", query, Undefined)

Next ==
  \/ ListItems(1)
  \/ GetItems(1)
  \/ ListCharacters(1)
  \/ GetCharacters(1)
  \/ GetAccount(1)
  \/ SearchRecipes(1)
  \/ CollectionProbed(1)
  \/ CollectionAnswered(1)
  \/ DetailsProbed(1)
  \/ DetailsAnswered(1)

Spec == Init /\ [][Next]_vars

\* the requests alone: two calls started side by side, none of them answered
Start(s) ==
  \/ ListItems(s)
  \/ GetItems(s)
  \/ ListCharacters(s)
  \/ GetCharacters(s)
  \/ GetAccount(s)
  \/ SearchRecipes(s)

NextKey ==
  \/ Start(1)
  \/ Start(2)

SpecKey == Init /\ [][NextKey]_vars

\* ------------------------------------------------------------ guild methods
\* The method definitions of the class body's guild section, in source order:
\* the name, the resource the doc comment names (@see), and the resource the
\* body requests. A resource is the path before and after the guild id.
Resource(pre, post) == [pre |-> pre, post |-> post]

MethodDefinition(name, see, requests) == [name |-> name, see |-> see, requests |-> requests]

ClassBody ==
  <<MethodDefinition("listGuildPermissions",
      Resource("guild/permissions", ""), Resource("guild/permissions", "")),
    MethodDefinition("getGuildPermissions",
      Resource("guild/permissions", ""), Resource("guild/permissions", "")),
    MethodDefinition("listGuildPermissions",
      Resource("guild/upgrades", ""), Resource("guild/upgrades", "")),
    MethodDefinition("getGuildPermissions",
      Resource("guild/upgrades", ""), Resource("guild/upgrades", "")),
    MethodDefinition("getGuildTreasury",
      Resource("guild/", "/treasury"), Resource("guild/", "/treasury")),
    MethodDefinition("getGuildTreasury",
      Resource("guild/", "/teams"), Resource("guild/", "/teams")),
    MethodDefinition("getGuildUpgrades",
      Resource("guild/", "/upgrades"), Resource("guild/", "/upgrades"))>>

\* a class body that defines a name twice keeps the last definition
Method(name) ==
  ClassBody[CHOOSE i \in DOMAIN ClassBody :
    ClassBody[i].name = name /\ \A j \in DOMAIN ClassBody : ClassBody[j].name = name => j <= i]

\* `guild/${guildId}/treasury`; guildId is "" for a resource without one
Path(resource, guildId) == resource.pre \o guildId \o resource.post

GuildIds == {"G1", "G2"}

ListGuildPermissions(s) ==
  \E page \in PageArgs :
    ApiRequestBy(s, "listGuildPermissions", Path(Method("listGuildPermissions").requests, ""),
      PlainObject(<<Prop("page", page), Prop("page_size", Undefined)>>), Undefined)

GetGuildPermissions(s) ==
  \E ids \in IdArgs :
    ApiDetailsRequestBy(s, "getGuildPermissions",
      Path(Method("getGuildPermissions").requests, ""), ids, Undefined, Undefined)

GetGuildTreasury(s) ==
  \E apiKey \in ApiKeyArgs, guildId \in GuildIds :
    ApiRequestBy(s, "getGuildTreasury", Path(Method("getGuildTreasury").requests, guildId),
      apiKey, Undefined)

GetGuildUpgrades(s) ==
  \E apiKey \in ApiKeyArgs, guildId \in GuildIds :
    ApiRequestBy(s, "getGuildUpgrades", Path(Method("getGuildUpgrades").requests, guildId),
      apiKey, Undefined)

NextGuild ==
  \/ ListGuildPermissions(1)
  \/ GetGuildPermissions(1)
  \/ GetGuildTreasury(1)
  \/ GetGuildUpgrades(1)
  \/ CollectionProbed(1)
  \/ CollectionAnswered(1)
  \/ DetailsProbed(1)
  \/ DetailsAnswered(1)

SpecGuild == Init /\ [][NextGuild]_vars

\* ------------------------------------------------------- concurrent fetches
\* Two detail fetches in flight at once: each slot runs its own call, and the
\* steps of the two calls (probe, callback on the probe, callback on the
\* transport's answer) interleave in any order on the one cache.
MaxConcurrentLen == 2

ConcurrentIdArgs == {Arr(q) : q \in SeqsUpTo({Num(i) : i \in Ids}, MaxConcurrentLen)}

GetItemsConcurrent(s) ==
  \E ids \in ConcurrentIdArgs : ApiDetailsRequest(s, "items", ids, Undefined, Undefined)

NextConcurrent ==
  \E s \in Slots :
    \/ GetItemsConcurrent(s)
    \/ DetailsProbed(s)
    \/ DetailsAnswered(s)

SpecConcurrent == Init /\ [][NextConcurrent]_vars

\* a cache store whose get can fail: the promise of this.cache.get (for the
\* collection key, or for one of the probed ids inside Promise.all) is rejected.
\* The probe's .then has a fulfilment callback only, so the callback is skipped
\* and the rejection is the call's.
ProbeFailed(s) ==
  /\ calls[s].pc = "probed"
  /\ LET c == calls[s]
     IN /\ IsArray(c.callerIds) => c.callerIds.items # <<>>
        /\ Continue(s, Reject([c EXCEPT !.lookupFailed = TRUE], ErrorValue("cache", 0)))
  /\ UNCHANGED <<config, cache, nCalls>>

NextFault ==
  \/ ListItems(1)
  \/ GetItems(1)
  \/ CollectionProbed(1)
  \/ CollectionAnswered(1)
  \/ DetailsProbed(1)
  \/ DetailsAnswered(1)
  \/ ProbeFailed(1)

SpecFault == Init /\ [][NextFault]_vars

\* -------------------------------------------------------------------- claims
\* what a finished detail fetch was asked for and what it gave back
Done(c, kind) == c.pc = "done" /\ c.kind = kind

RequestedIds(c) == [i \in 1..Len(c.arg2.items) |-> c.arg2.items[i].n]

ResultIds(c) == [i \in 1..Len(c.result.items) |-> c.result.items[i].id]

\* the call ended well: it resolved, and where it went to the transport the
\* upstream answered with every object asked for
Succeeded(c) ==
  /\ c.outcome = "resolved" /\ c.result.t # "error"
  /\ c.nTransport = 0 \/ c.answer = "full"

TransportFailed(c) ==
  c.nTransport = 1 /\ c.answer \in {"status", "transport", "malformed"}

NoDuplicates(q) == \A i, j \in 1..Len(q) : q[i] = q[j] => i = j

\* C1: a successful detail fetch of an id sequence returns the objects in the
\* requested order: the i-th object has the i-th requested id (stated here for
\* sequences without a repeated id; C2 is about the repeated ones).
C1_RequestedOrder ==
  \A s \in Slots :
    LET c == calls[s]
    IN Done(c, "details") /\ IsArray(c.arg2) /\ Succeeded(c)
       /\ NoDuplicates(RequestedIds(c))
       => IsArray(c.result) /\ ResultIds(c) = RequestedIds(c)

\* C2: a successful detail fetch of [a, a] returns two elements, both the
\* object with id a, whether a was cached before or not.
C2_DuplicateIds ==
  \A s \in Slots :
    LET c == calls[s]
    IN Done(c, "details") /\ IsArray(c.arg2) /\ Succeeded(c)
       /\ Len(c.arg2.items) = 2 /\ c.arg2.items[1] = c.arg2.items[2]
       => IsArray(c.result) /\ ResultIds(c) = RequestedIds(c)

\* C3: on a partial cache hit the detail fetch makes exactly one transport call,
\* asks it for exactly the ids not in the cache, and returns the objects of all
\* requested ids in the requested order.
C3_PartialHit ==
  \A s \in Slots :
    LET c == calls[s]
        asked == Range(RequestedIds(c))
    IN Done(c, "details") /\ IsArray(c.arg2) /\ Succeeded(c)
       /\ c.hit # {} /\ c.hit # asked
       => /\ c.nTransport = 1
          /\ {c.request.sent[i].n : i \in 1..Len(c.request.sent)} = asked \ c.hit
          /\ IsArray(c.result) /\ ResultIds(c) = RequestedIds(c)

\* the requested ids found in the cache, in their requested order
CachedRequested(c) == SelectSeq(RequestedIds(c), LAMBDA i : i \in c.hit)

\* C4: when some requested id came from the cache and the transport call for
\* the others fails, the detail fetch returns exactly the cached objects of the
\* request, in their requested relative order (stated for requests without a
\* repeated id).
C4_PartialFailure ==
  \A s \in Slots :
    LET c == calls[s]
    IN Done(c, "details") /\ IsArray(c.arg2) /\ c.hit # {} /\ TransportFailed(c)
       /\ NoDuplicates(RequestedIds(c))
       => /\ c.outcome = "resolved"
          /\ IsArray(c.result)
          /\ c.result.items = [i \in 1..Len(CachedRequested(c)) |->
                                 CacheGet(cache, IdKey(c.cacheKey, Num(CachedRequested(c)[i])))]

\* C5: when no requested id came from the cache and the transport call fails,
\* the detail fetch fails: the promise is rejected, not resolved with the error.
C5_FailureIsRejection ==
  \A s \in Slots :
    LET c == calls[s]
    IN Done(c, "details") /\ c.hit = {} /\ TransportFailed(c)
       => c.outcome = "rejected"

\* C6: a successful detail fetch of a single id returns one object, not an
\* array, and its id is the requested id.
C6_SingleIdShape ==
  \A s \in Slots :
    LET c == calls[s]
    IN Done(c, "details") /\ c.arg2.t = "number" /\ Succeeded(c)
       => c.result.t = "object" /\ c.result.id = c.arg2.n

\* C7: a collection fetch that repeats a fetch which went to the transport once
\* and succeeded makes no transport call and returns the same data.
C7_IdempotentRefetch ==
  \A s \in Slots :
    LET c == calls[s]
    IN Done(c, "collection") /\ c.repeat
       => c.nTransport = 0 /\ c.outcome = "resolved" /\ c.result = c.first

\* the properties of a parameter object as a set: names with their values
PropSet(obj) ==
  {<<obj.props[i].name, obj.props[i].value>> :
     i \in {j \in 1..Len(obj.props) : obj.props[j].value.t # "undefined"}}

\* C8: two collection fetches of one path whose parameter objects have the same
\* names with the same values get the same cache key, whatever the order the
\* properties were inserted in.
C8_KeyDeterminism ==
  \A s1, s2 \in Slots :
    LET c1 == calls[s1]
        c2 == calls[s2]
    IN c1.kind = "collection" /\ c2.kind = "collection"
       /\ c1.path = c2.path /\ c1.arg3 = c2.arg3
       /\ IsObject(c1.arg2) /\ IsObject(c2.arg2) /\ PropSet(c1.arg2) = PropSet(c2.arg2)
       => c1.cacheKey = c2.cacheKey

\* the API key a public method was called with
CallerKey(c) ==
  LET k == IF c.kind = "collection"
           THEN (IF IsObject(c.arg2) THEN c.arg3 ELSE c.arg2)
           ELSE (IF IsObject(c.arg3) THEN c.arg4 ELSE c.arg3)
  IN IF k.t = "string" THEN k.s ELSE ""

\* the cache lookups of a call: what is asked for (path, language, API key,
\* query parameters, id) and the key it is looked up under
What(c, kind, id) ==
  [kind |-> kind, path |-> c.path, lang |-> GetProp(c.params, "lang"),
   apiKey |-> CallerKey(c), query |-> PropSet(c.params), id |-> id]

Lookups(c) ==
  IF c.kind = "collection" \/ (c.kind = "details" /\ c.arg2.t = "undefined")
  THEN {[what |-> What(c, "collection", Undefined), key |-> c.cacheKey]}
  ELSE IF c.kind = "details" /\ c.arg2.t \in {"number", "boolean"}
  THEN {[what |-> What(c, "detail", c.arg2),
         key |-> IF Truthy(c.arg2) THEN IdKey(c.cacheKey, c.arg2) ELSE c.cacheKey]}
  ELSE IF c.kind = "details"
  THEN {[what |-> What(c, "detail", c.arg2.items[i]),
         key |-> IdKey(c.cacheKey, c.arg2.items[i])] : i \in 1..Len(c.arg2.items)}
  ELSE {}

\* C9: lookups that differ in path, language, API key, a query parameter or the
\* id never use the same cache key.
C9_KeyDistinctness ==
  \A s1, s2 \in Slots :
    \A l1 \in Lookups(calls[s1]), l2 \in Lookups(calls[s2]) :
      l1.what # l2.what => l1.key # l2.key

\* the owners of the data in a value: whose Authorization the upstream saw
Owners(v) ==
  IF v.t \in {"object", "entry"} THEN {v.owner}
  ELSE IF v.t = "array" THEN {v.items[i].owner : i \in 1..Len(v.items)}
  ELSE {}

ExpectedOwner(c) == IF CallerKey(c) = "" THEN "" ELSE "Bearer " \o CallerKey(c)

\* C10: a call never returns data fetched with another API key, or fetched with
\* a key when the call has none.
C10_KeyIsolation ==
  \A s \in Slots :
    LET c == calls[s]
    IN c.pc = "done" => Owners(c.result) \subseteq {ExpectedOwner(c)}

\* the object of an id was cached by a call with API key A; a call with API
\* key B for the same id of the same path has finished with B's own object
C10_Witness ==
  LET c == calls[1]
  IN /\ Done(c, "details") /\ CallerKey(c) = "B" /\ c.arg2.t = "number"
     /\ c.result.t = "object" /\ c.result.owner = "Bearer B"
     /\ \E k \in DOMAIN cache :
          /\ cache[k].t = "object" /\ cache[k].owner = "Bearer A"
          /\ cache[k].id = c.result.id /\ cache[k].path = c.result.path

\* C11: a collection fetch whose transport call is answered with status 200 or
\* 206 and a JSON body resolves with the decoded body and has stored the decoded
\* body under the call's cache key.
C11_SuccessStatuses ==
  \A s \in Slots :
    LET c == calls[s]
    IN Done(c, "collection") /\ c.nTransport = 1 /\ ~c.response.error
       /\ c.response.statusCode \in {StatusOK, StatusPartialContent} /\ c.response.valid
       => /\ c.outcome = "resolved" /\ c.result = c.response.data
          /\ c.cacheKey \in DOMAIN cache /\ cache[c.cacheKey] = c.response.data
          /\ c.nWrites = 1

\* a page of a listing answered with 206 Partial Content has been returned and
\* stored
C11_Witness ==
  LET c == calls[1]
  IN /\ Done(c, "collection") /\ c.nTransport = 1
     /\ c.response.statusCode = StatusPartialContent /\ c.response.valid
     /\ GetProp(c.params, "page") = Num(1)
     /\ IsArray(c.result) /\ c.outcome = "resolved"
     /\ c.cacheKey \in DOMAIN cache /\ cache[c.cacheKey] = c.result

\* C12: a collection fetch whose transport call is answered with a status other
\* than 200 and 206 fails: the promise is rejected with an error that carries the
\* status, and the call has written nothing to the cache.
C12_ErrorStatusFails ==
  \A s \in Slots :
    LET c == calls[s]
    IN Done(c, "collection") /\ c.nTransport = 1 /\ ~c.response.error
       /\ c.response.statusCode \notin {StatusOK, StatusPartialContent}
       => /\ c.outcome = "rejected"
          /\ c.result = ErrorValue("status", c.response.statusCode)
          /\ c.nWrites = 0

\* C13: a detail fetch of an id sequence whose ids are all in the cache makes no
\* transport call and returns the cached objects in the requested order, one
\* for each requested position.
C13_AllCached ==
  \A s \in Slots :
    LET c == calls[s]
    IN Done(c, "details") /\ IsArray(c.arg2) /\ c.arg2.items # <<>>
       /\ Range(RequestedIds(c)) \subseteq c.hit
       => /\ c.nTransport = 0 /\ c.outcome = "resolved"
          /\ IsArray(c.result) /\ ResultIds(c) = RequestedIds(c)

\* C15: when the transport answers with a success status and a body that is not
\* JSON, a call that has nothing from the cache fails: the promise is rejected
\* with the parse error, and the call has written nothing to the cache.
C15_MalformedBodyFails ==
  \A s \in Slots :
    LET c == calls[s]
    IN c.pc = "done" /\ c.nTransport = 1 /\ c.hit = {} /\ ~c.response.error
       /\ c.response.statusCode \in {StatusOK, StatusPartialContent} /\ ~c.response.valid
       => /\ c.outcome = "rejected"
          /\ c.result = ErrorValue("parse", c.response.statusCode)
          /\ c.nWrites = 0

\* C14: a failed cache lookup counts as a miss: the call goes to the transport,
\* and the lookup's failure is not what the call ends with.
C14_LookupFailureIsMiss ==
  \A s \in Slots :
    LET c == calls[s]
    IN c.pc = "done" /\ c.lookupFailed
       => c.nTransport = 1 /\ c.result # ErrorValue("cache", 0)

\* C16: a detail fetch whose id argument is neither an id nor a sequence of ids
\* fails with an invalid-argument error before any I/O: it has made no cache
\* lookup and no transport call.
C16_InvalidIdFailsFast ==
  \A s \in Slots :
    LET c == calls[s]
    IN Done(c, "details") /\ c.arg2.t = "boolean"
       => /\ c.outcome = "rejected" /\ c.result = ErrorValue("argument", 0)
          /\ c.nLookups = 0 /\ c.nTransport = 0

\* C17: a detail method called without ids resolves to the resource's listing,
\* a non-empty array, unless the upstream itself fails.
C17_NoIdsIsListing ==
  \A s \in Slots :
    LET c == calls[s]
    IN Done(c, "details") /\ c.arg2.t = "undefined"
       /\ (c.nTransport = 0 \/ (RequestOutcome(c.response).ok /\ IsArray(c.response.data)))
       => c.outcome = "resolved" /\ IsArray(c.result) /\ c.result.items # <<>>

\* C18: the request of a call made with an API key carries the header
\* Authorization: Bearer <that key>, and the request of a call made without one
\* carries no Authorization header, in collection and in detail fetches, the
\* key given in its own position or in the params position.
C18_BearerHeader ==
  \A s \in Slots :
    LET c == calls[s]
    IN c.nTransport >= 1
       => c.request.authorization =
            IF CallerKey(c) = "" THEN Undefined ELSE Str("Bearer " \o CallerKey(c))

\* a detail fetch given its key in the params position has sent it and got the
\* key owner's object
C18_Witness ==
  LET c == calls[1]
  IN /\ Done(c, "details") /\ c.arg3 = Str("A") /\ c.arg4 = Undefined
     /\ c.nTransport = 1 /\ c.request.authorization = Str("Bearer A")
     /\ c.result.t = "object" /\ c.result.owner = "Bearer A"

\* C19: the language configured as lang is the client's default language: the
\* calls (none of them names a language itself) have it in the parameters their
\* cache key is built from and in the query parameters they send.
C19_ConfiguredLang ==
  \A s \in Slots :
    LET c == calls[s]
    IN Truthy(config.lang) /\ c.pc # "idle"
       => /\ GetProp(c.params, "lang") = config.lang
          /\ c.cacheKey = CacheKey(c.path, SetProp(c.params, "lang", config.lang), c.apiKey)
          /\ c.nTransport >= 1 => GetProp(c.request.qs, "lang") = config.lang

\* C20: a call of a public method requests the resource that the documentation
\* of every definition of that name names: listGuildPermissions and
\* getGuildPermissions request guild/permissions, getGuildTreasury requests
\* guild/<id>/treasury; no later definition of the name takes a documented
\* resource away.
C20_DocumentedPaths ==
  \A s \in Slots :
    LET c == calls[s]
    IN c.pc # "idle" /\ c.method # ""
       => \A i \in DOMAIN ClassBody :
            ClassBody[i].name = c.method
            => \E guildId \in GuildIds \cup {""} : c.path = Path(ClassBody[i].see, guildId)

\* the ids a detail fetch of an id sequence did not find in the cache, in the
\* order the probes were made in
MissingIds(c) == SelectSeq(c.callerIds.items, LAMBDA x : x.n \notin c.hit)

\* C21: a detail fetch makes at most one transport call; a fetch of an id
\* sequence makes it after the probes of all its ids, and the one request asks
\* for all the missing ids together, never for one id alone.
C21_OneTransportCall ==
  \A s \in Slots :
    LET c == calls[s]
    IN c.kind = "details"
       => /\ c.nTransport <= 1
          /\ c.nTransport = 1 /\ IsArray(c.arg2)
             => /\ c.nLookups = Len(c.arg2.items)
                /\ c.pc \in {"requested", "done"}
                /\ GetProp(c.request.qs, "ids") = Str(Join(MissingIds(c)))
                /\ GetProp(c.request.qs, "id") = Undefined

\* three ids were asked for, one was cached, and one request went out for the
\* other two
C21_Witness ==
  LET c == calls[1]
  IN /\ Done(c, "details") /\ IsArray(c.arg2) /\ Len(c.arg2.items) = 3
     /\ Cardinality(c.hit) = 1 /\ c.nLookups = 3 /\ c.nTransport = 1
     /\ Len(MissingIds(c)) = 2 /\ Len(c.request.sent) = 2

\* the paths of the detail methods, and the key a detail fetch of a path with
\* an API key derives its per-id keys from
DetailPaths == {"items", "characters"}

DetailBaseKey(path, apiKey) == CacheKey(path, WithLang(PlainObject(<<>>), config), apiKey)

\* C22: the entry under the per-id key of id i of a path is an object of that
\* path whose id is i, and every object in the cache is under the per-id key of
\* its own id, whatever order and number of objects the upstream answered with.
C22_OwnIdKey ==
  /\ \A path \in DetailPaths, apiKey \in ApiKeyArgs, i \in Ids :
       LET k == IdKey(DetailBaseKey(path, apiKey), Num(i))
       IN k \in DOMAIN cache
          => cache[k].t = "object" /\ cache[k].id = i /\ cache[k].path = path
  /\ \A k \in DOMAIN cache :
       cache[k].t = "object"
       => \E apiKey \in ApiKeyArgs :
            k = IdKey(DetailBaseKey(cache[k].path, apiKey), Num(cache[k].id))

\* the upstream answered two of three requested ids, the higher id first, and
\* both objects are in the cache under their own ids
C22_Witness ==
  LET c == calls[1]
  IN /\ Done(c, "details") /\ Len(c.request.sent) = 3
     /\ IsArray(c.response.data) /\ Len(c.response.data.items) = 2
     /\ c.response.data.items[1].id > c.response.data.items[2].id
     /\ \A i \in 1..2 :
          LET o == c.response.data.items[i]
          IN IdKey(c.cacheKey, Num(o.id)) \in DOMAIN cache
             /\ cache[IdKey(c.cacheKey, Num(o.id))] = o

\* C23: a collection fetch whose key is in the cache writes nothing to the
\* cache, and one whose key is not in the cache and whose transport call
\* succeeds writes exactly once (a fetch that fails writes nothing, C12).
C23_CollectionWrites ==
  \A s \in Slots :
    LET c == calls[s]
    IN Done(c, "collection")
       => /\ c.baseHit => c.nWrites = 0
          /\ ~c.baseHit /\ RequestOutcome(c.response).ok => c.nWrites = 1
          /\ ~c.baseHit /\ ~RequestOutcome(c.response).ok => c.nWrites = 0

\* C24: the request of a detail fetch carries the language of the call's cache
\* key as its lang query parameter, and every object in the cache is under a
\* per-id key of the language it was fetched in.
C24_DetailLanguage ==
  /\ \A s \in Slots :
       LET c == calls[s]
       IN c.kind = "details" /\ c.nTransport >= 1
          => GetProp(c.request.qs, "lang") = GetProp(c.params, "lang")
  /\ \A k \in DOMAIN cache :
       cache[k].t = "object"
       => \E apiKey \in ApiKeyArgs :
            k = IdKey(CacheKey(cache[k].path,
                        PlainObject(<<Prop("lang", Str(cache[k].lang))>>), apiKey),
                      Num(cache[k].id))

\* C25: a detail fetch leaves the caller's id array as it was: after the call
\* it has the same elements in the same order as when it was passed.
C25_CallerIdsUnchanged ==
  \A s \in Slots :
    LET c == calls[s]
    IN Done(c, "details") /\ IsArray(c.arg2) => c.callerIds = c.arg2

\* the query object a caller passed to searchRecipes, as the caller finds it
\* after the call: _apiRequest works on the object itself, not on a copy
CallerQuery(c) == c.params

\* C26: a collection fetch does not modify a parameter object the caller
\* supplied: the query object passed to searchRecipes has the same properties
\* after the call as before.
C26_CallerParamsUnchanged ==
  \A s \in Slots :
    LET c == calls[s]
    IN Done(c, "collection") /\ c.path = "recipes/search" /\ IsObject(c.arg2)
       => CallerQuery(c) = c.arg2

\* C27: a detail fetch of an id sequence of at least one id that does not end
\* with an error ends with a sequence, and the sequence has the object of every
\* id that was in the cache, also when exactly one id had to be fetched.
C27_SequenceShape ==
  \A s \in Slots :
    LET c == calls[s]
    IN Done(c, "details") /\ IsArray(c.arg2) /\ c.arg2.items # <<>>
       /\ c.outcome = "resolved" /\ c.result.t # "error"
       => /\ IsArray(c.result)
          /\ \A i \in c.hit : \E j \in 1..Len(c.result.items) : c.result.items[j].id = i

\* two ids were cached, the third was fetched alone, and the three objects are
\* the result
C27_Witness ==
  LET c == calls[1]
  IN /\ Done(c, "details") /\ IsArray(c.arg2) /\ Cardinality(Range(RequestedIds(c))) = 3
     /\ Cardinality(c.hit) = 2 /\ Len(c.request.sent) = 1 /\ c.nTransport = 1
     /\ IsArray(c.result) /\ Len(c.result.items) = 3

\* the ids of the objects the upstream answered with
ReturnedIds(c) == {c.response.data.items[i].id : i \in 1..Len(c.response.data.items)}

\* C29: when the upstream answers a detail fetch of an id sequence successfully
\* but leaves out an id that was asked for, the result has no hole; every
\* object in it was requested, appears once and is the object of its own id;
\* the result holds the cached and the returned ids and no other.
C29_OmittedIdAbsent ==
  \A s \in Slots :
    LET c == calls[s]
    IN Done(c, "details") /\ IsArray(c.arg2) /\ c.answer = "partial"
       => /\ c.outcome = "resolved" /\ IsArray(c.result)
          /\ \A j \in 1..Len(c.result.items) :
               /\ c.result.items[j].t = "object"
               /\ c.result.items[j].id \in Range(RequestedIds(c))
               /\ CacheGet(cache, IdKey(c.cacheKey, Num(c.result.items[j].id)))
                    = c.result.items[j]
          /\ NoDuplicates(ResultIds(c))
          /\ Range(ResultIds(c)) = c.hit \cup ReturnedIds(c)

\* ids 0, 1 and 2 were asked for, 0 was cached, the upstream answered with 2
\* only, and the result is the objects of 0 and 2
C29_Witness ==
  LET c == calls[1]
  IN /\ Done(c, "details") /\ IsArray(c.arg2) /\ Range(RequestedIds(c)) = {0, 1, 2}
     /\ c.hit = {0} /\ c.answer = "partial" /\ ReturnedIds(c) = {2}
     /\ IsArray(c.result) /\ ResultIds(c) = <<0, 2>>

\* the transport's answer is a failure: no answer, an error status, or a body
\* that is not JSON
FailedResponse(r) ==
  r.error \/ r.statusCode \notin {StatusOK, StatusPartialContent} \/ ~r.valid

\* C30: a detail fetch whose transport call fails leaves the cache as it was:
\* no step of a detail fetch changes the cache except the answer of a transport
\* call that succeeded, whether the call ends with the cached part or with the
\* error.
C30_FailureLeavesCache ==
  [][\A s \in Slots :
       calls'[s] # calls[s] /\ calls'[s].kind = "details"
       /\ (calls[s].pc = "requested" => FailedResponse(calls'[s].response))
       => cache' = cache]_vars

\* a detail fetch found id 0 in the cache, its transport call for the others
\* failed, it returned the cached part, and the cache holds what it held
C30_Witness ==
  LET c == calls[1]
  IN /\ Done(c, "details") /\ IsArray(c.arg2) /\ c.hit = {0}
     /\ c.nTransport = 1 /\ FailedResponse(c.response) /\ c.nWrites = 0
     /\ IsArray(c.result) /\ ResultIds(c) = <<0>>
     /\ \A i \in Range(RequestedIds(c)) :
          IdKey(c.cacheKey, Num(i)) \in DOMAIN cache <=> i \in c.hit

\* C28: two detail fetches of id sequences that share an id, run side by side
\* in any interleaving and answered in full by the upstream: each made at most
\* one transport call, each result holds the objects of exactly the ids the
\* call asked for, and every id asked for is in the cache under its own key
\* with the object the callers got.
C28_ConcurrentFetches ==
  LET c1 == calls[1]
      c2 == calls[2]
  IN /\ Done(c1, "details") /\ Done(c2, "details") /\ Succeeded(c1) /\ Succeeded(c2)
     /\ Range(RequestedIds(c1)) \cap Range(RequestedIds(c2)) # {}
     => \A s \in Slots :
          LET c == calls[s]
          IN /\ c.nTransport <= 1
             /\ IsArray(c.result) /\ Range(ResultIds(c)) = Range(RequestedIds(c))
             /\ \A j \in 1..Len(c.result.items) :
                  CacheGet(cache, IdKey(c.cacheKey, Num(c.result.items[j].id)))
                    = c.result.items[j]

\* both calls missed the shared id 1 before either had stored it, both fetched
\* it, and both ended with all their objects
C28_Witness ==
  LET c1 == calls[1]
      c2 == calls[2]
  IN /\ Done(c1, "details") /\ Done(c2, "details") /\ Succeeded(c1) /\ Succeeded(c2)
     /\ RequestedIds(c1) = <<0, 1>> /\ RequestedIds(c2) = <<1, 2>>
     /\ c1.hit = {} /\ c2.hit = {} /\ c1.nTransport = 1 /\ c2.nTransport = 1
     /\ Num(1) \in Range(c1.request.sent) /\ Num(1) \in Range(c2.request.sent)
     /\ Range(ResultIds(c1)) = {0, 1} /\ Range(ResultIds(c2)) = {1, 2}

\* C31: a collection fetch that repeats a successful fetch whose decoded body
\* was falsy makes no transport call: the cached value is served whatever it is.
C31_FalsyValueServed ==
  \A s \in Slots :
    LET c == calls[s]
    IN Done(c, "collection") /\ c.repeat /\ ~Truthy(c.first)
       => c.nTransport = 0

\* C32: a detail fetch of a single id, the id 0 included, probes the per-id key
\* it writes: when that key is in the cache the fetch makes no transport call
\* and returns the entry, and when it is not the fetch goes to the transport
\* and is not answered with the entry of the collection fetch of the path.
C32_SingleIdKey ==
  \A s \in Slots :
    LET c == calls[s]
    IN Done(c, "details") /\ c.arg2.t = "number"
       => /\ c.hit = {c.arg2.n}
               => c.nTransport = 0 /\ c.result = cache[IdKey(c.cacheKey, c.arg2)]
          /\ c.hit = {} => c.nTransport = 1

\* ------------------------------------------- positional variant (gw2api.js)
\* The older client of src/src/gw2api.js: the language is config.lang and is
\* the prefix of every key, and the detail fetch matches the fetched objects
\* to the missing ids by position.

\* isInt(n) on the values of the model, whose numbers are all integers
IsInt(v) == v.t = "number"

PositionalConstructor(cfg) ==
  [lang |-> OrElse(cfg.lang, Str(DefaultLanguage)),
   defaultLang |-> cfg.defaultLang,
   cacheTimeout |-> OrElse(cfg.cacheTimeout, Num(DefaultCacheTimeout)),
   maxCacheObjects |-> OrElse(cfg.maxCacheObjects, Num(DefaultMaxCacheObjects))]

\* `${this.config.lang}#${baseKey}`
LangKey(cfg, baseKey) == TemplateString(cfg.lang) \o "#" \o baseKey

PositionalFindInCache(store, cfg, baseKey, ids) ==
  IF ~Truthy(ids) THEN CacheGet(store, LangKey(cfg, baseKey))
  ELSE IF IsInt(ids) THEN CacheGet(store, LangKey(cfg, IdKey(baseKey, ids)))
  ELSE IF ~IsArray(ids) THEN Arr(<<>>)      \* ids.length is undefined: no get
  ELSE Arr([i \in 1..Len(ids.items) |->
              CacheGet(store, LangKey(cfg, IdKey(baseKey, ids.items[i])))])

\* objects[i] of a JavaScript array: undefined past its end (i from 1 here)
At(items, i) == IF i \in 1..Len(items) THEN items[i] ELSE Undefined

\* the loop of _setCacheObjects over ids[0 .. n-1], objects already sorted
RECURSIVE PositionalSetEach(_, _, _, _, _, _)
PositionalSetEach(store, cfg, baseKey, ids, objects, i) ==
  IF i > Len(ids) THEN store
  ELSE PositionalSetEach(
         CacheSet(store, LangKey(cfg, IdKey(baseKey, ids[i])), At(objects, i)),
         cfg, baseKey, ids, objects, i + 1)

PositionalSetCacheObjects(store, cfg, baseKey, ids, objects) ==
  IF IsInt(ids) THEN CacheSet(store, LangKey(cfg, IdKey(baseKey, ids)), objects)
  ELSE PositionalSetEach(store, cfg, baseKey, ids.items, SortObjects(objects.items), 1)

\* _request's callback: only status 200 is a success
PositionalRequestOutcome(r) ==
  IF r.error THEN [ok |-> FALSE, value |-> ErrorValue("transport", 0)]
  ELSE IF r.statusCode # StatusOK
  THEN [ok |-> FALSE, value |-> ErrorValue("status", r.statusCode)]
  ELSE IF JsonParse(r).t = "error"
  THEN [ok |-> FALSE, value |-> JsonParse(r)]
  ELSE [ok |-> TRUE, value |-> JsonParse(r)]

\* the positions (from 0) of the undefined values of cachedResult
UndefinedPositions(cachedResult) ==
  LET at == {i \in 1..Len(cachedResult.items) : cachedResult.items[i].t = "undefined"}
      q == SetToSeq(at)
  IN [i \in 1..Len(q) |-> q[i] - 1]

\* ids.filter((n, i) => cachedResult[i] === undefined)
PositionalMissing(ids, cachedResult) ==
  LET at == {i \in 1..Len(ids.items) : At(cachedResult.items, i).t = "undefined"}
      q == SetToSeq(at)
  IN Arr([i \in 1..Len(q) |-> ids.items[q[i]]])

\* cachedResult[undefinedPositions[i]] = requestResult[i]
PositionalMerge(cachedResult, undefinedPositions, requestResult) ==
  Arr([j \in 1..Len(cachedResult.items) |->
         IF \E i \in 1..Len(undefinedPositions) : undefinedPositions[i] = j - 1
         THEN At(requestResult,
                 CHOOSE i \in 1..Len(undefinedPositions) : undefinedPositions[i] = j - 1)
         ELSE cachedResult.items[j]])

PositionalInit ==
  /\ config \in {PositionalConstructor(cfg) : cfg \in ConfigArgs}
  /\ cache = EmptyStore
  /\ calls = [s \in Slots |-> IdleCall]
  /\ nCalls = 0

\* _apiDetailsRequest up to the cache probe; the sort is in place
PositionalDetailsRequest(s, path, ids) ==
  /\ CanStart(s)
  /\ LET sorted == IF IsArray(ids) THEN Arr(SortIds(ids.items)) ELSE ids
     IN Continue(s, [IdleCall EXCEPT
          !.pc = "probed", !.kind = "positional", !.path = path, !.method = "getItems",
          !.arg2 = ids, !.callerIds = sorted, !.ids = sorted,
          !.cachedResult = PositionalFindInCache(cache, config, path, sorted),
          !.hit = IF IsArray(ids)
                  THEN {i \in Ids : Num(i) \in Range(ids.items)
                          /\ CacheGet(cache, LangKey(config, IdKey(path, Num(i)))).t
                               # "undefined"}
                  ELSE {}])
  /\ nCalls' = nCalls + 1
  /\ UNCHANGED <<config, cache>>

\* the callback on the probe
PositionalProbed(s) ==
  /\ calls[s].pc = "probed" /\ calls[s].kind = "positional"
  /\ LET c == calls[s]
         cachedResult == c.cachedResult
     IN IF Truthy(cachedResult) /\ IsArray(cachedResult) /\ ~IsArray(c.ids)
        THEN Continue(s, Reject(c, ErrorValue("TypeError", 0)))   \* ids.filter
        ELSE IF Truthy(cachedResult) /\ ~IsArray(cachedResult)
        THEN Continue(s, Resolve(c, cachedResult))
        ELSE IF c.ids.t = "undefined"
        THEN Continue(s, Reject(c, ErrorValue("TypeError", 0)))   \* ids.length
        ELSE LET ids == IF IsArray(cachedResult)
                        THEN PositionalMissing(c.ids, cachedResult) ELSE c.ids
             IN IF IsArray(ids) /\ Len(ids.items) > 0
                THEN Continue(s, [c EXCEPT
                       !.pc = "requested", !.ids = ids,
                       !.params = SetProp(IdListToParams(ids), "lang", config.lang),
                       !.request = RequestOptions(c.path,
                                     SetProp(IdListToParams(ids), "lang", config.lang),
                                     Undefined, ids.items),
                       !.nTransport = c.nTransport + 1])
                ELSE Continue(s, Resolve([c EXCEPT !.ids = ids], cachedResult))
  /\ UNCHANGED <<config, cache, nCalls>>

\* the callback on the transport's answer
PositionalAnswered(s) ==
  /\ calls[s].pc = "requested" /\ calls[s].kind = "positional"
  /\ \E r \in Responses(calls[s].request) :
       LET c == [calls[s] EXCEPT !.response = r,
                                 !.answer = AnswerKind(calls[s].request, r)]
           outcome == PositionalRequestOutcome(r)
           requestResult == SortObjects(outcome.value.items)
       IN IF ~outcome.ok
          THEN /\ cache' = cache
               /\ Continue(s, Reject(c, outcome.value))
          ELSE /\ cache' = PositionalSetCacheObjects(cache, config, c.path, c.ids,
                                                     outcome.value)
               /\ Continue(s, Resolve([c EXCEPT !.nWrites = Len(c.ids.items)],
                                      PositionalMerge(c.cachedResult,
                                        UndefinedPositions(c.cachedResult),
                                        requestResult)))
  /\ UNCHANGED <<config, nCalls>>

PositionalGetItems(s) == \E ids \in IdArgs : PositionalDetailsRequest(s, "items", ids)

NextPositional ==
  \/ PositionalGetItems(1)
  \/ PositionalProbed(1)
  \/ PositionalAnswered(1)

SpecPositional == PositionalInit /\ [][NextPositional]_vars

\* C33: in the positional variant, every object a detail fetch caches is under
\* the key of its own id, and every object of the result is at the position of
\* its own id in the sorted id list, whatever ids the upstream answers with and
\* in whatever order.
C33_PositionalOwnId ==
  \A s \in Slots :
    LET c == calls[s]
    IN Done(c, "positional") /\ c.outcome = "resolved" /\ IsArray(c.result)
       => /\ \A i \in Ids :
               LET v == CacheGet(cache, LangKey(config, IdKey(c.path, Num(i))))
               IN v.t # "undefined" => v.t = "object" /\ v.id = i
          /\ \A j \in 1..Len(c.result.items) :
               c.result.items[j].t # "undefined"
                 => c.result.items[j].id = c.callerIds.items[j].n

\* ------------------------------------------------------------- completion
\* The event loop runs every callback whose promise has settled, and the cache
\* store and the transport settle every promise: each callback of a call in
\* flight is taken eventually.
NextLive ==
  \/ ListItems(1)
  \/ GetItems(1)
  \/ CollectionProbed(1)
  \/ CollectionAnswered(1)
  \/ DetailsProbed(1)
  \/ DetailsAnswered(1)

SpecLive ==
  /\ Init /\ [][NextLive]_vars
  /\ WF_vars(CollectionProbed(1)) /\ WF_vars(CollectionAnswered(1))
  /\ WF_vars(DetailsProbed(1)) /\ WF_vars(DetailsAnswered(1))

\* C34: every collection fetch and every detail fetch in flight eventually
\* completes, resolved or rejected, whatever the cache holds and whatever the
\* transport answers.
C34_EventuallyCompletes ==
  \A s \in Slots :
    (calls[s].pc \in {"probed", "requested"}) ~> (calls[s].pc = "done")

\* a detail fetch with part of its ids cached has completed on a malformed body
C34_Witness ==
  /\ Done(calls[1], "details") /\ calls[1].hit # {}
  /\ calls[1].nTransport = 1 /\ calls[1].answer = "malformed"
  /\ calls[1].outcome \in {"resolved", "rejected"}

\* ---------------------------------------- memory-cache variants (part_000)
\* The two oldest copies of the client keep their entries in the memory-cache
\* module, which is one store for the whole process: every client instance
\* reads and writes the same cache.  The direct revision (the first copy) has
\* getItemIDs and getItemDetails talk to the cache themselves; the generic
\* revision (the second copy) routes them through _apiListRequest and
\* _apiDetailsRequest.  Here config[s] is the configuration of client s, and
\* calls[s] is the call made on client s.
Revisions == {"direct", "generic"}

MemoryConstructor(cfg, revision) ==
  [lang |-> OrElse(cfg.lang, Str(DefaultLanguage)),
   cacheTimeout |-> OrElse(cfg.cacheTimeout, Num(DefaultCacheTimeout)),
   revision |-> revision]

MemoryInit ==
  /\ \E revision \in Revisions :
       config \in [Slots -> {MemoryConstructor(cfg, revision) : cfg \in ConfigArgs}]
  /\ cache = EmptyStore
  /\ calls = [s \in Slots |-> IdleCall]
  /\ nCalls = 0

MemoryIdArgs ==
  {Undefined, Bool(TRUE)} \cup {Num(i) : i \in Ids} \cup ConcurrentIdArgs

\* a method that hands back a plain value, not a promise
Return(c, value) == [c EXCEPT !.pc = "done", !.outcome = "returned", !.result = value]

\* a method that throws before it has made a promise
Throw(c, value) == [c EXCEPT !.pc = "done", !.outcome = "thrown", !.result = value]

\* _apiRequest's callback: only status 200 is a success
MemoryRequestOutcome(r) ==
  IF r.error THEN [ok |-> FALSE, value |-> ErrorValue("transport", 0)]
  ELSE IF r.statusCode # StatusOK
  THEN [ok |-> FALSE, value |-> ErrorValue("status", r.statusCode)]
  ELSE IF JsonParse(r).t = "error"
  THEN [ok |-> FALSE, value |-> JsonParse(r)]
  ELSE [ok |-> TRUE, value |-> JsonParse(r)]

\* the call of _apiRequest(path, parameters): parameters.lang is set and the
\* request is sent
MemoryApiRequest(s, c, path, parameters, sent) ==
  Continue(s, [c EXCEPT
    !.pc = "requested",
    !.params = SetProp(parameters, "lang", config[s].lang),
    !.request = RequestOptions(path, SetProp(parameters, "lang", config[s].lang),
                               Undefined, sent),
    !.nTransport = c.nTransport + 1])

\* the record of a call of a public method as it starts
MemoryCall(s, method, path, ids) ==
  [IdleCall EXCEPT
     !.kind = "memory", !.method = method, !.path = path, !.arg2 = ids,
     !.callerIds = ids, !.ids = ids,
     !.repeat = IsRepeat(calls[s], "memory", path, ids, Undefined, Undefined)
                /\ calls[s].method = method,
     !.first = IF IsRepeat(calls[s], "memory", path, ids, Undefined, Undefined)
                  /\ calls[s].method = method
               THEN calls[s].result ELSE Undefined]

\* getItemIDs of the direct revision
DirectGetItemIDs(s) ==
  LET cachedResult == CacheGet(cache, "items")
      c == [MemoryCall(s, "getItemIDs", "items", Undefined) EXCEPT
              !.cacheKey = "items", !.cachedResult = cachedResult,
              !.baseHit = "items" \in DOMAIN cache]
  IN IF Truthy(cachedResult) THEN Continue(s, Return(c, cachedResult))
     ELSE MemoryApiRequest(s, c, "items", PlainObject(<<>>), <<>>)

\* getItemDetails of the direct revision
DirectGetItemDetails(s, ids) ==
  LET c == MemoryCall(s, "getItemDetails", "items", ids)
  IN IF ~IsArray(ids) /\ ~IsInt(ids)
     THEN Continue(s, Throw(c, ErrorValue("Error", 0)))
     ELSE LET cacheKey == IF IsArray(ids) THEN "items#" \o Join(ids.items)
                          ELSE "item#" \o TemplateString(ids)
              cachedResult == CacheGet(cache, cacheKey)
              d == [c EXCEPT !.cacheKey = cacheKey, !.cachedResult = cachedResult,
                             !.baseHit = cacheKey \in DOMAIN cache]
          IN IF Truthy(cachedResult) THEN Continue(s, Return(d, cachedResult))
             ELSE MemoryApiRequest(s, d, "items", IdListToParams(ids),
                                   IF IsArray(ids) THEN ids.items ELSE <<>>)

\* _findInCache of the generic revision: a cached value, or for an array of
\* ids the record of what is and what is not in the cache
GenericFindInCache(store, cfg, baseKey, ids) ==
  IF ~Truthy(ids) THEN CacheGet(store, LangKey(cfg, baseKey))
  ELSE IF IsInt(ids) THEN CacheGet(store, LangKey(cfg, IdKey(baseKey, ids)))
  ELSE LET found(id) == Truthy(CacheGet(store, LangKey(cfg, IdKey(baseKey, id))))
           inCache == SelectSeq(ids.items, found)
           missing(id) == \A i \in 1..Len(inCache) : inCache[i] # id
       IN [t |-> "object",
           inCache |-> Arr(inCache),
           notInCache |-> Arr(SortIds(SelectSeq(ids.items, missing))),
           cachedObjects |->
             Arr([i \in 1..Len(inCache) |->
                    CacheGet(store, LangKey(cfg, IdKey(baseKey, inCache[i])))])]

\* _setCacheObject of the generic revision: cache.put is called with the key
\* only, so the entry's value is undefined
GenericSetCacheObject(store, cfg, baseKey, object) ==
  CacheSet(store, LangKey(cfg, baseKey), Undefined)

RECURSIVE GenericSetEach(_, _, _, _, _, _)
GenericSetEach(store, cfg, baseKey, ids, objects, i) ==
  IF i > Len(ids) THEN store
  ELSE GenericSetEach(
         CacheSet(store, LangKey(cfg, IdKey(baseKey, ids[i])),
                  IF IsArray(objects) THEN At(objects.items, i) ELSE Undefined),
         cfg, baseKey, ids, objects, i + 1)

GenericSetCacheObjects(store, cfg, baseKey, ids, objects) ==
  IF IsInt(ids) THEN GenericSetCacheObject(store, cfg, IdKey(baseKey, ids), objects)
  ELSE GenericSetEach(store, cfg, baseKey, ids.items, objects, 1)

\* _apiListRequest of the generic revision
ApiListRequest(s, method, path) ==
  LET cachedResult == GenericFindInCache(cache, config[s], path, Undefined)
      c == [MemoryCall(s, method, path, Undefined) EXCEPT
              !.cacheKey = LangKey(config[s], path), !.cachedResult = cachedResult,
              !.baseHit = LangKey(config[s], path) \in DOMAIN cache]
  IN IF Truthy(cachedResult) THEN Continue(s, Return(c, cachedResult))
     ELSE MemoryApiRequest(s, c, path, PlainObject(<<>>), <<>>)

\* _apiDetailsRequest of the generic revision
GenericApiDetailsRequest(s, method, path, ids) ==
  LET c == MemoryCall(s, method, path, ids)
  IN IF Truthy(ids) /\ ~IsInt(ids) /\ ~IsArray(ids)
     THEN Continue(s, Throw(c, ErrorValue("TypeError", 0)))        \* ids.filter
     ELSE LET cacheResults == GenericFindInCache(cache, config[s], path, ids)
              listed == Truthy(cacheResults) /\ "notInCache" \in DOMAIN cacheResults
              missing == IF listed THEN cacheResults.notInCache ELSE ids
              d == [c EXCEPT !.cacheKey = LangKey(config[s], path),
                             !.cachedResult = cacheResults, !.ids = missing]
          IN IF ~listed /\ Truthy(cacheResults)
             THEN Continue(s, Return(d, cacheResults))
             ELSE IF ~IsArray(missing) /\ ~IsInt(missing)
             THEN Continue(s, Throw(d, ErrorValue("Error", 0)))    \* _idListToParams
             ELSE MemoryApiRequest(s, d, path, IdListToParams(missing),
                                   IF IsArray(missing) THEN missing.items ELSE <<>>)

\* the public methods, on client s
GetItemIDs(s) ==
  /\ CanStart(s)
  /\ IF config[s].revision = "direct" THEN DirectGetItemIDs(s)
     ELSE ApiListRequest(s, "getItemIDs", "items")
  /\ nCalls' = nCalls + 1
  /\ UNCHANGED <<config, cache>>

GetItemDetails(s) ==
  /\ CanStart(s)
  /\ \E ids \in MemoryIdArgs :
       IF config[s].revision = "direct" THEN DirectGetItemDetails(s, ids)
       ELSE GenericApiDetailsRequest(s, "getItemDetails", "items", ids)
  /\ nCalls' = nCalls + 1
  /\ UNCHANGED <<config, cache>>

\* the callback on the answer of _apiRequest and the callback the method
\* chains on it: the cache write and the result
MemoryAnswered(s) ==
  /\ calls[s].pc = "requested" /\ calls[s].kind = "memory"
  /\ \E r \in Responses(calls[s].request) :
       LET c == [calls[s] EXCEPT !.response = r,
                                 !.answer = AnswerKind(calls[s].request, r)]
           outcome == MemoryRequestOutcome(r)
           result == outcome.value
       IN IF ~outcome.ok
          THEN /\ cache' = cache
               /\ Continue(s, Reject(c, result))
          ELSE /\ cache' =
                    IF config[s].revision = "direct"
                    THEN CacheSet(cache, c.cacheKey, result)
                    ELSE IF c.method = "getItemIDs"
                    THEN GenericSetCacheObject(cache, config[s], c.path, result)
                    ELSE GenericSetCacheObjects(cache, config[s], c.path, c.ids, result)
               /\ Continue(s, Resolve([c EXCEPT !.nWrites = c.nWrites + 1], result))
  /\ UNCHANGED <<config, nCalls>>

NextMemory ==
  \E s \in Slots :
    \/ GetItemIDs(s)
    \/ GetItemDetails(s)
    \/ MemoryAnswered(s)

SpecMemory == MemoryInit /\ [][NextMemory]_vars

\* C35: a call on a client is never answered with an entry another client
\* cached: the listing a client's getItemIDs hands back is in the client's own
\* language, whatever the other client has fetched before.
C35_ClientsIsolated ==
  \A s \in Slots :
    LET c == calls[s]
    IN Done(c, "memory") /\ c.method = "getItemIDs"
         /\ c.outcome \in {"resolved", "returned"} /\ IsArray(c.result)
       => \A i \in 1..Len(c.result.items) :
            c.result.items[i].lang = TemplateString(config[s].lang)

\* C36: in the memory-cache variants a public method called with valid
\* arguments answers with a promise, on a miss and on a hit, and getItemIDs()
\* or getItemDetails(id) repeating a call that succeeded makes no transport
\* call and resolves to the same data.
C36_MemoryPromise ==
  \A s \in Slots :
    LET c == calls[s]
    IN Done(c, "memory") /\ (c.method = "getItemIDs" \/ IsInt(c.arg2))
       => /\ c.outcome \in {"resolved", "rejected"}
          /\ c.repeat => c.nTransport = 0 /\ c.outcome = "resolved"
                         /\ c.result = c.first

====
